---- MODULE Spec2Model ----
(***************************************************************************)
(* A model of src/bot.py: the spreadsheet-submission attendance bot.       *)
(*                                                                         *)
(* State: the in-memory ledger submissions_by_day (an insertion-ordered    *)
(* dict of day key -> set of user ids), the durable file DATA_FILE, the    *)
(* host's calendar day, the asyncio tasks (heartbeat, on_ready handler,    *)
(* on_message handler) with their positions at their awaits, the messages  *)
(* handed to send, and the lines the last step logged.                     *)
(***************************************************************************)
EXTENDS Integers, Sequences, FiniteSets, TLC

\* ------------------------------------------------------------------ bounds
\* calendar days the clock runs through: 2024-01-01 .. 2024-01-<MaxDay>
MaxDay == 2
\* human accounts are 1..MaxUser; one more account, MaxUser + 1, is another bot
MaxUser == 2
\* file writes that fail in one run of the process
MaxFaults == 1

\* ------------------------------------------------------------ configuration
\* CHANNEL_ID: the configured target channel
CHANNEL_ID == 1
\* bot.user.id: the bot's own account
BotUserId == 0

Channels == {CHANNEL_ID, CHANNEL_ID + 1}
Humans == 1..MaxUser
OtherBots == {MaxUser + 1}
Accounts == {BotUserId} \cup Humans \cup OtherBots
\* discord's Member.bot flag
IsBotAccount(id) == id \in OtherBots \cup {BotUserId}

\* ------------------------------------------------------------------ strings
\* str.endswith(suffix)
EndsWith(s, suffix) ==
    /\ Len(s) >= Len(suffix)
    /\ SubSeq(s, Len(s) - Len(suffix) + 1, Len(s)) = suffix

\* str.startswith(prefix)
StartsWith(s, prefix) ==
    /\ Len(s) >= Len(prefix)
    /\ SubSeq(s, 1, Len(prefix)) = prefix

\* `needle in s`
Contains(s, needle) ==
    \E i \in 1..(Len(s) - Len(needle) + 1) :
        SubSeq(s, i, i + Len(needle) - 1) = needle

UpperLetters == "ABCDEFGHIJKLMNOPQRSTUVWXYZ"
LowerLetters == "abcdefghijklmnopqrstuvwxyz"

\* one character of str.lower()
LowerChar(c) ==
    IF \E i \in 1..Len(UpperLetters) : SubSeq(UpperLetters, i, i) = c
    THEN LET i == CHOOSE j \in 1..Len(UpperLetters) : SubSeq(UpperLetters, j, j) = c
         IN  SubSeq(LowerLetters, i, i)
    ELSE c

RECURSIVE Lower(_)
\* str.lower()
Lower(s) ==
    IF Len(s) = 0 THEN s
    ELSE LowerChar(SubSeq(s, 1, 1)) \o Lower(SubSeq(s, 2, Len(s)))

\* ------------------------------------------------------------------ day keys
Digits == "0123456789"
Digit(n) == SubSeq(Digits, n + 1, n + 1)
\* date.isoformat() of the n-th of January 2024
IsoFormat(n) == "2024-01-" \o Digit(n \div 10) \o Digit(n % 10)

\* -------------------------------------------------- dict[str, set[int]]
\* A dict is the sequence of its items [k, v] in insertion order.
Keys(d) == {d[i].k : i \in 1..Len(d)}
Has(d, k) == k \in Keys(d)
IndexOf(d, k) == CHOOSE i \in 1..Len(d) : d[i].k = k
\* d.get(k, default)
Get(d, k, default) == IF Has(d, k) THEN d[IndexOf(d, k)].v ELSE default
\* d[k] = v
SetItem(d, k, v) ==
    IF Has(d, k) THEN [d EXCEPT ![IndexOf(d, k)].v = v]
    ELSE Append(d, [k |-> k, v |-> v])
\* d.setdefault(k, default), as the dict it leaves
SetDefault(d, k, default) ==
    IF Has(d, k) THEN d ELSE Append(d, [k |-> k, v |-> default])

\* ------------------------------------------------------------------ lists
Range(s) == {s[i] : i \in 1..Len(s)}
Min(S) == CHOOSE m \in S : \A x \in S : m <= x
Max(S) == CHOOSE m \in S : \A x \in S : m >= x
RECURSIVE SortedDescending(_)
\* a list of the set from its greatest element down
SortedDescending(S) ==
    IF S = {} THEN << >> ELSE <<Max(S)>> \o SortedDescending(S \ {Max(S)})
RECURSIVE Sorted(_)
\* sorted(list(v)) of a set of ints
Sorted(S) == IF S = {} THEN << >> ELSE <<Min(S)>> \o Sorted(S \ {Min(S)})

\* ------------------------------------------------------------ DATA_FILE
\* The file is absent, holds text json.load rejects, or holds a JSON object:
\* the sequence of its items [k, iterable, v], where a value that is a JSON
\* list has iterable = TRUE and v its elements, and a value set() rejects
\* (a JSON number) has iterable = FALSE.
AbsentFile == [kind |-> "absent", object |-> << >>]
GarbageFile == [kind |-> "garbage", object |-> << >>]
JsonFile(object) == [kind |-> "json", object |-> object]
JsonList(k, v) == [k |-> k, iterable |-> TRUE, v |-> v]
JsonNumber(k) == [k |-> k, iterable |-> FALSE, v |-> << >>]

\* outcomes of the file write in save_data: written, open() raised (the file
\* is as it was), or the write raised after open(..., 'w') truncated the file
SaveOutcomes == {"ok", "open_error", "write_error"}

LogLoaded == "Loaded submission history"
LogLoadFailed == "Failed to load data file"
LogSaveFailed == "Failed to save data"

RECURSIVE LoadItems(_, _)
\* the loop of load_data: items are assigned in file order until set(v) raises
LoadItems(d, items) ==
    IF Len(items) = 0 THEN [dict |-> d, raised |-> FALSE]
    ELSE IF ~Head(items).iterable THEN [dict |-> d, raised |-> TRUE]
    ELSE LoadItems(SetItem(d, Head(items).k, Range(Head(items).v)), Tail(items))

\* load_data(): the ledger it leaves and what it logs
load_data(d, file) ==
    IF file.kind = "absent" THEN [dict |-> d, log |-> << >>]
    ELSE IF file.kind = "garbage" THEN [dict |-> d, log |-> <<LogLoadFailed>>]
    ELSE LET r == LoadItems(d, file.object)
         IN  [dict |-> r.dict,
              log |-> IF r.raised THEN <<LogLoadFailed>> ELSE <<LogLoaded>>]

\* serializable = {k: sorted(list(v)) for k, v in submissions_by_day.items()}
Serializable(d) == [i \in 1..Len(d) |-> JsonList(d[i].k, Sorted(d[i].v))]

\* a save that leaves the write to a later moment: nothing is written in
\* the step that calls it
save_deferred(d, file, io) == [file |-> file, log |-> << >>]

\* save_data(): the file it leaves and what it logs
save_data(d, file, io) ==
    IF io = "ok" THEN [file |-> JsonFile(Serializable(d)), log |-> << >>]
    ELSE IF io = "open_error" THEN [file |-> file, log |-> <<LogSaveFailed>>]
    ELSE [file |-> GarbageFile, log |-> <<LogSaveFailed>>]

\* ------------------------------------------------------------------ state
VARIABLES
    today,               \* the host's local date, as the day of January 2024
    disk,                \* DATA_FILE
    faults,              \* file writes that have failed so far
    submissions_by_day,  \* the in-memory ledger
    health_started,      \* _health_started
    heartbeats,          \* the tasks named 'heartbeat': [pc, last_day]
    ready,               \* on_ready handler: "idle" or "awaiting" (its awaits)
    handler,             \* on_message handler: its position, message and locals
    sends,               \* texts handed to send by the latest step
    console              \* lines logged or printed by the latest step

vars == <<today, disk, faults, submissions_by_day, health_started,
          heartbeats, ready, handler, sends, console>>

\* _today_key()
today_key == IsoFormat(today)

\* a day before the clock's first day, in files left by earlier runs
PastKey == "2023-12-31"

\* DATA_FILE as an earlier run of the process left it
FileOfEarlierDay == JsonFile(<<JsonList(PastKey, <<1, 2>>)>>)
FileOfSameDay ==
    JsonFile(<<JsonList(PastKey, <<1, 2>>), JsonList(IsoFormat(1), <<1>>)>>)
\* DATA_FILE edited by hand: the second value is a number, not a list
FileWithBadValue ==
    JsonFile(<<JsonList(PastKey, <<1>>), JsonNumber(IsoFormat(1))>>)

\* the lists and the items DATA_FILE may hold: lists in any order and with
\* repeats (json.load accepts them), and values that are not lists
FileLists == {<< >>, <<1>>, <<2, 1>>, <<1, 1>>}
FileItems ==
    {JsonList(k, v) : k \in {PastKey, IsoFormat(1)}, v \in FileLists}
    \cup {JsonNumber(k) : k \in {PastKey, IsoFormat(1)}}
\* every DATA_FILE of the model: absent, unparseable, or an object of up to
\* two items with distinct keys
Files ==
    {AbsentFile, GarbageFile, JsonFile(<< >>)}
    \cup {JsonFile(<<a>>) : a \in FileItems}
    \cup {JsonFile(<<p[1], p[2]>>) :
            p \in {q \in FileItems \X FileItems : q[1].k # q[2].k}}

\* the process has just started: module level has run, bot.run(TOKEN) begins
Started(file) ==
    /\ today = 1
    /\ disk = file
    /\ faults = 0
    /\ submissions_by_day = << >>
    /\ health_started = FALSE
    /\ heartbeats = << >>
    /\ ready = "idle"
    /\ sends = << >>
    /\ console = << >>

\* ------------------------------------------------------------ environment
\* midnight passes
DayPasses ==
    /\ today < MaxDay
    /\ today' = today + 1
    /\ UNCHANGED <<disk, faults, submissions_by_day, health_started,
                   heartbeats, ready, handler, sends, console>>

\* a file write may fail while the budget of failures lasts
MayFail(io) == io \in SaveOutcomes /\ (io # "ok" => faults < MaxFaults)
Failed(io) == IF io = "ok" THEN 0 ELSE 1

\* ------------------------------------------------------------ _heartbeat
LogDateChanged == "Date changed"
LogHeartbeat == "Heartbeat"

\* bot.loop.create_task(_heartbeat(), name='heartbeat')
NewHeartbeat == [pc |-> "created", last_day |-> ""]

\* the task's first run: last_day = _today_key(), then the first sleep
HeartbeatStart(i) ==
    /\ heartbeats[i].pc = "created"
    /\ heartbeats' = [heartbeats EXCEPT ![i] = [pc |-> "sleeping", last_day |-> today_key]]
    /\ sends' = << >>
    /\ console' = << >>
    /\ UNCHANGED <<today, disk, faults, submissions_by_day, health_started,
                   ready, handler>>

\* a rollover that starts the ledger afresh with the new day alone
RolloverFresh(d, current) == <<[k |-> current, v |-> {}]>>

\* a rollover that assigns the new day an empty set whatever it holds
RolloverResetting(d, current) == SetItem(d, current, {})

\* lines 103-104 of a tick that saw the day change: the ledger gets the new
\* day's entry if it has none
RolloverLedger(d, current) == SetDefault(d, current, {})

\* one pass of the loop body after asyncio.sleep(30) returns
HeartbeatTick(i, io) ==
    /\ heartbeats[i].pc = "sleeping"
    /\ LET current == today_key
           last_day == heartbeats[i].last_day
       IN  IF current # last_day
           THEN LET d == RolloverLedger(submissions_by_day, current)
                    s == save_data(d, disk, io)
                IN  /\ MayFail(io)
                    /\ heartbeats' = [heartbeats EXCEPT ![i].last_day = current]
                    /\ submissions_by_day' = d
                    /\ disk' = s.file
                    /\ faults' = faults + Failed(io)
                    /\ console' = <<LogDateChanged>> \o s.log \o <<LogHeartbeat>>
           ELSE /\ io = "ok"
                /\ console' = <<LogHeartbeat>>
                /\ UNCHANGED <<heartbeats, submissions_by_day, disk, faults>>
    /\ sends' = << >>
    /\ UNCHANGED <<today, health_started, ready, handler>>

LogHeartbeatError == "Heartbeat error"

\* where in the try block of a tick an exception is raised: in the rollover
\* detection before last_day is assigned (lines 98-102), or in the rollover
\* itself after it is (lines 104-105)
RaisePoints == {"detection", "rollover"}

\* one pass of the loop body in which a statement raises: line 109 catches
\* the exception and logs it, and the loop goes on to the next sleep
HeartbeatRaises(i, at) ==
    /\ heartbeats[i].pc = "sleeping"
    /\ IF at = "rollover"
       THEN /\ today_key # heartbeats[i].last_day
            /\ heartbeats' = [heartbeats EXCEPT ![i].last_day = today_key]
            /\ console' = <<LogDateChanged, LogHeartbeatError>>
       ELSE /\ heartbeats' = heartbeats
            /\ console' = <<LogHeartbeatError>>
    /\ sends' = << >>
    /\ UNCHANGED <<today, disk, faults, submissions_by_day, health_started,
                   ready, handler>>

\* ------------------------------------------------------------ on_ready
DiagnosticText == "Bot online (diagnostic message)"
LogUnhandledReady == "Unhandled exception in on_ready"

\* if not any(t.get_name() == 'heartbeat' for t in asyncio.all_tasks())
HeartbeatMissing(tasks) == Len(tasks) = 0

\* an on_ready that creates a heartbeat task every time it fires
StartHeartbeatAlways(tasks) == Append(tasks, NewHeartbeat)

\* heartbeat tasks after on_ready's "start heartbeat background task once"
StartHeartbeatOnce(tasks) ==
    IF HeartbeatMissing(tasks) THEN Append(tasks, NewHeartbeat) ELSE tasks

\* on_ready without line 144: load_data() alone
LoadOnly(d, file, key) == load_data(d, file)

\* lines 141-144: load_data(), then setdefault(_today_key(), set())
LoadAndEnsureToday(d, file, key) ==
    LET l == load_data(d, file)
    IN  [dict |-> SetDefault(l.dict, key, {}), log |-> l.log]

\* on_ready up to its first suspension. The first call awaits the health
\* server's start, which may raise (the port is taken); later calls skip it.
\* With the channel resolved the diagnostic send is awaited; with it
\* unresolved a later call runs through to load_data without suspending.
OnReady(health, chan) ==
    /\ ready = "idle"
    /\ heartbeats' = StartHeartbeatOnce(heartbeats)
    /\ health_started' = TRUE
    /\ IF ~health_started /\ health = "error"
       THEN /\ ready' = "idle"
            /\ sends' = << >>
            /\ console' = <<LogUnhandledReady>>
            /\ UNCHANGED submissions_by_day
       ELSE IF ~health_started \/ chan
       THEN /\ ready' = "awaiting"
            /\ sends' = IF chan THEN <<DiagnosticText>> ELSE << >>
            /\ console' = << >>
            /\ UNCHANGED submissions_by_day
       ELSE LET r == LoadAndEnsureToday(submissions_by_day, disk, today_key)
            IN  /\ ready' = "idle"
                /\ sends' = << >>
                /\ submissions_by_day' = r.dict
                /\ console' = r.log
    /\ UNCHANGED <<today, disk, faults, handler>>

\* on_ready resumes after its awaits: lines 141-144
OnReadyLoad ==
    /\ ready = "awaiting"
    /\ LET r == LoadAndEnsureToday(submissions_by_day, disk, today_key)
       IN  /\ submissions_by_day' = r.dict
           /\ console' = r.log
    /\ ready' = "idle"
    /\ sends' = << >>
    /\ UNCHANGED <<today, disk, faults, health_started, heartbeats, handler>>

\* ------------------------------------------------------------ messages
\* A message: its author's account, channel, the author's
\* guild_permissions.administrator, the attachments' filenames and the text.
Msg(author, channel, admin, attachments, content) ==
    [author |-> author, channel |-> channel, admin |-> admin,
     attachments |-> attachments, content |-> content]

OtherChannel == CHANNEL_ID + 1

TestText == "Bot is working! Channel ID"
ConfirmText == "Spreadsheet received from"
NoSubmissionsText == "No submissions received today."
SubmittedEmbed == "embed: Submitted Today"
EveryoneText == "Everyone has submitted today!"
NotSubmittedEmbed == "embed: Not Yet Submitted Today"
DailyEmbed == "embed: Daily Report"
DeniedText == "You need administrator permissions to clear submissions."
ClearedText == "Cleared today's submission list."
DebugEmbed == "embed: Bot Debug Info"

\* what users post: attachments and text
Payloads ==
    { <<<<"report.xlsx">>, "">>,
      <<<<"old.xls">>, "">>,
      <<<<"notes.txt", "data.csv">>, "hello team">>,
      <<<<"t.ods">>, "">>,
      <<<<"report.pdf">>, "">>,
      <<<<"REPORT.XLSX">>, "see file">>,
      <<<< >>, "hello team">>,
      <<<< >>, "here: https://docs.google.com/spreadsheets/d/abc">>,
      <<<< >>, "check my Drive.Google.com folder">>,
      <<<< >>, "sheets.google.com/x">>,
      <<<< >>, "docs.google.com/document/d/abc">>,
      <<<< >>, "!test">>,
      <<<< >>, "!test drive.google.com/x">>,
      <<<< >>, "!debug">>,
      <<<< >>, "!submissions">>,
      <<<< >>, "!notsubmitted">>,
      <<<< >>, "!dailyreport">>,
      <<<< >>, "!clear_submissions">>,
      <<<< >>, "!clear_submissions drive.google.com/x">> }

\* the gateway also delivers the bot's own messages: the texts it sends
OwnTexts ==
    {DiagnosticText, TestText, ConfirmText, NoSubmissionsText, EveryoneText,
     DeniedText, ClearedText, ""}

\* every message of the model
Messages ==
    {Msg(a, c, adm, p[1], p[2]) :
        a \in Humans, c \in Channels, adm \in BOOLEAN, p \in Payloads}
    \cup {Msg(a, c, FALSE, p[1], p[2]) :
        a \in OtherBots, c \in Channels, p \in Payloads}
    \cup {Msg(BotUserId, c, FALSE, << >>, t) : c \in Channels, t \in OwnTexts}

\* the messages the whole-system specification delivers: submissions by
\* every human account, clear_submissions in and out of the target channel
\* by an administrator and by another member, a report, a message that is
\* neither, and one message of the bot itself
CoreMessages ==
    {Msg(a, CHANNEL_ID, FALSE, <<"report.xlsx">>, "") : a \in Humans}
    \cup {Msg(1, c, adm, << >>, "!clear_submissions") :
            c \in Channels, adm \in BOOLEAN}
    \cup { Msg(1, OtherChannel, FALSE, << >>, "check my Drive.Google.com folder"),
           Msg(1, CHANNEL_ID, FALSE, << >>, "hello team"),
           Msg(1, CHANNEL_ID, FALSE, << >>, "!test drive.google.com/x"),
           Msg(1, CHANNEL_ID, FALSE, << >>, "!dailyreport"),
           Msg(1, CHANNEL_ID, TRUE, << >>, "!clear_submissions drive.google.com/x"),
           Msg(BotUserId, CHANNEL_ID, FALSE, << >>, ConfirmText) }

NoMessage == Msg(BotUserId, CHANNEL_ID, FALSE, << >>, "")

\* ------------------------------------------------------------ detection
Extensions == {".xlsx", ".xls", ".csv", ".ods"}
google_sheets_keywords ==
    {"docs.google.com/spreadsheets", "sheets.google.com", "drive.google.com"}

\* attachment.filename.endswith(('.xlsx', '.xls', '.csv', '.ods'))
IsSpreadsheetFile(filename) == \E ext \in Extensions : EndsWith(filename, ext)

\* the attachment loop, lines 166-170
AttachmentDetected(m) ==
    \E i \in 1..Len(m.attachments) : IsSpreadsheetFile(m.attachments[i])

\* the keyword loop, lines 173-184
LinkDetected(m) ==
    /\ m.content # ""
    /\ \E keyword \in google_sheets_keywords : Contains(Lower(m.content), keyword)

\* spreadsheet_detected after lines 163-184
spreadsheet_detected(m) == AttachmentDetected(m) \/ LinkDetected(m)

LogEvent == "[EVENT] Message"
LogAttachment == "File attachment detected"
LogLink == "Google Sheets link detected"
LogConfirming == "Sending confirmation"
LogNoSpreadsheet == "No spreadsheet detected"
LogMissingPermission == "Missing permission to send message"
LogUnhandledMessage == "Unhandled exception in on_message"

\* a recording that appends an entry for the day on every call, as a ledger
\* of lists would
RecordAppending(d, key, id) ==
    Append(d, [k |-> key, v |-> Get(d, key, {}) \cup {id}])

\* submissions_by_day.setdefault(today_key, set()).add(message.author.id)
RecordSubmission(d, key, id) ==
    SetItem(d, key, Get(d, key, {}) \cup {id})

\* ------------------------------------------------------------ commands
CommandNames ==
    {"debug", "test", "submissions", "notsubmitted", "dailyreport",
     "clear_submissions"}

\* the text up to the first space
FirstWord(s) ==
    IF \E i \in 1..Len(s) : SubSeq(s, i, i) = " "
    THEN LET i == CHOOSE j \in 1..Len(s) :
                    /\ SubSeq(s, j, j) = " "
                    /\ \A h \in 1..(j - 1) : SubSeq(s, h, h) # " "
         IN  SubSeq(s, 1, i - 1)
    ELSE s

\* bot.process_commands(message): the command the message invokes, "" if none.
\* Messages of bot accounts invoke nothing; the prefix is "!".
InvokedCommand(m) ==
    IF IsBotAccount(m.author) \/ ~StartsWith(m.content, "!") THEN ""
    ELSE LET name == SubSeq(FirstWord(m.content), 2, Len(FirstWord(m.content)))
         IN  IF name \in CommandNames THEN name ELSE ""

\* guild.members snapshots: the bot itself and any of the other accounts
Rosters == {g \in SUBSET Accounts : BotUserId \in g}

\* a partition over every roster member, bots included
get_today_sets_all_members(d, key, guild) ==
    LET today_ids == Get(d, key, {})
        submitted == today_ids \cap guild
    IN  [today_ids |-> today_ids, submitted |-> submitted,
         not_submitted |-> guild \ submitted]

\* _get_today_sets(guild)
get_today_sets(d, key, guild) ==
    LET today_ids == Get(d, key, {})
        member_ids == {id \in guild : ~IsBotAccount(id)}
        submitted == today_ids \cap member_ids
        not_submitted == member_ids \ submitted
    IN  [today_ids |-> today_ids, submitted |-> submitted,
         not_submitted |-> not_submitted]

NoSets == [today_ids |-> {}, submitted |-> {}, not_submitted |-> {}]

\* what a command leaves: the ledger, the file, the texts sent, the lines
\* logged and the sets it computed
Outcome(d, file, sent, log, sets) ==
    [dict |-> d, file |-> file, sent |-> sent, log |-> log, sets |-> sets]

\* ctx.channel.id != CHANNEL_ID, negated: the guard the four commands start with
InTargetChannel(m) == m.channel = CHANNEL_ID

\* report_submissions
report_submissions(m, d, file, key, guild) ==
    IF ~InTargetChannel(m) THEN Outcome(d, file, << >>, << >>, NoSets)
    ELSE LET sets == get_today_sets(d, key, guild)
         IN  Outcome(d, file,
                     IF sets.submitted = {} THEN <<NoSubmissionsText>>
                     ELSE <<SubmittedEmbed>>, << >>, sets)

\* report_not_submitted
report_not_submitted(m, d, file, key, guild) ==
    IF ~InTargetChannel(m) THEN Outcome(d, file, << >>, << >>, NoSets)
    ELSE LET sets == get_today_sets(d, key, guild)
         IN  Outcome(d, file,
                     IF sets.not_submitted = {} THEN <<EveryoneText>>
                     ELSE <<NotSubmittedEmbed>>, << >>, sets)

\* a daily report that answers in whatever channel it is invoked
daily_report_anywhere(m, d, file, key, guild) ==
    Outcome(d, file, <<DailyEmbed>>, << >>, get_today_sets(d, key, guild))

\* a daily report whose read of today's set creates the entry, as a
\* defaultdict would
daily_report_creating(m, d, file, key, guild) ==
    IF ~InTargetChannel(m) THEN Outcome(d, file, << >>, << >>, NoSets)
    ELSE Outcome(SetDefault(d, key, {}), file, <<DailyEmbed>>, << >>,
                 get_today_sets(d, key, guild))

\* daily_report
daily_report(m, d, file, key, guild) ==
    IF ~InTargetChannel(m) THEN Outcome(d, file, << >>, << >>, NoSets)
    ELSE Outcome(d, file, <<DailyEmbed>>, << >>, get_today_sets(d, key, guild))

\* a clear that empties the ledger of every day
clear_every_day(m, d, file, key, io) ==
    IF ~InTargetChannel(m) THEN Outcome(d, file, << >>, << >>, NoSets)
    ELSE IF ~m.admin THEN Outcome(d, file, <<DeniedText>>, << >>, NoSets)
    ELSE LET cleared == <<[k |-> key, v |-> {}]>>
             s == save_data(cleared, file, io)
         IN  Outcome(cleared, s.file, <<ClearedText>>, s.log, NoSets)

\* a clear that does not ask for the administrator permission
clear_unchecked(m, d, file, key, io) ==
    IF ~InTargetChannel(m) THEN Outcome(d, file, << >>, << >>, NoSets)
    ELSE LET cleared == SetItem(d, key, {})
             s == save_data(cleared, file, io)
         IN  Outcome(cleared, s.file, <<ClearedText>>, s.log, NoSets)

\* clear_submissions
clear_submissions(m, d, file, key, io) ==
    IF ~InTargetChannel(m) THEN Outcome(d, file, << >>, << >>, NoSets)
    ELSE IF ~m.admin THEN Outcome(d, file, <<DeniedText>>, << >>, NoSets)
    ELSE LET cleared == SetItem(d, key, {})
             s == save_data(cleared, file, io)
         IN  Outcome(cleared, s.file, <<ClearedText>>, s.log, NoSets)

\* the command's callback, up to the send it ends with
InvokeCommand(command, m, d, file, key, guild, io) ==
    CASE command = "submissions" -> report_submissions(m, d, file, key, guild)
      [] command = "notsubmitted" -> report_not_submitted(m, d, file, key, guild)
      [] command = "dailyreport" -> daily_report(m, d, file, key, guild)
      [] command = "clear_submissions" -> clear_submissions(m, d, file, key, io)
      [] command = "debug" -> Outcome(d, file, <<DebugEmbed>>, << >>, NoSets)
      [] command = "test" -> Outcome(d, file, <<TestText>>, << >>, NoSets)
      [] OTHER -> Outcome(d, file, << >>, << >>, NoSets)

\* ------------------------------------------------------------ on_message
SendOutcomes == {"ok", "forbidden", "error"}

\* Lines 160-184 and the command lookup are functions of the message alone:
\* their values for every message of the model.
SubmissionMessages == {m \in Messages : spreadsheet_detected(m)}
AttachmentMessages == {m \in Messages : AttachmentDetected(m)}
TestMessages == {m \in Messages : StartsWith(m.content, "!test")}
InvokingDebug == {m \in Messages : InvokedCommand(m) = "debug"}
InvokingTest == {m \in Messages : InvokedCommand(m) = "test"}
InvokingSubmissions == {m \in Messages : InvokedCommand(m) = "submissions"}
InvokingNotSubmitted == {m \in Messages : InvokedCommand(m) = "notsubmitted"}
InvokingDailyReport == {m \in Messages : InvokedCommand(m) = "dailyreport"}
InvokingClear == {m \in Messages : InvokedCommand(m) = "clear_submissions"}
ReportMessages ==
    {m \in InvokingSubmissions \cup InvokingNotSubmitted \cup InvokingDailyReport :
        InTargetChannel(m)}
ClearingMessages == {m \in InvokingClear : InTargetChannel(m) /\ m.admin}
Invoked(m) ==
    CASE m \in InvokingDebug -> "debug"
      [] m \in InvokingTest -> "test"
      [] m \in InvokingSubmissions -> "submissions"
      [] m \in InvokingNotSubmitted -> "notsubmitted"
      [] m \in InvokingDailyReport -> "dailyreport"
      [] m \in InvokingClear -> "clear_submissions"
      [] OTHER -> ""

\* the on_message handler: where it is, its message, and the locals of the
\* command it ran
HandlerAt(pc, m, guild, sets) ==
    [pc |-> pc, message |-> m, guild |-> guild,
     today_ids |-> sets.today_ids, submitted |-> sets.submitted,
     not_submitted |-> sets.not_submitted]

\* no on_message handler has run yet
IdleHandler == HandlerAt("idle", NoMessage, {}, NoSets)

\* no guild snapshot is read
NoGuild == {}

\* line 203: process_commands runs the invoked command's callback up to its
\* send without suspending, and the handler ends with that send. Only a
\* report reads the guild snapshot, only an admitted clear writes the file.
ProcessCommands(m, io, guild, log) ==
    LET o == InvokeCommand(Invoked(m), m, submissions_by_day, disk,
                           today_key, guild, io)
    IN  /\ IF m \in ReportMessages THEN guild \in Rosters ELSE guild = NoGuild
        /\ IF m \in ClearingMessages THEN MayFail(io) ELSE io = "ok"
        /\ submissions_by_day' = o.dict
        /\ disk' = o.file
        /\ faults' = faults + Failed(io)
        /\ sends' = o.sent
        /\ console' = log \o o.log
        /\ handler' = HandlerAt("done", m, guild, o.sets)

\* lines 163-203, up to the next suspension: a detected spreadsheet is
\* recorded and saved and the confirmation send awaited; otherwise the
\* handler goes on to process_commands
Body(m, io, guild) ==
    IF m \in SubmissionMessages
    THEN LET d == RecordSubmission(submissions_by_day, today_key, m.author)
             s == save_data(d, disk, io)
         IN  /\ MayFail(io)
             /\ guild = NoGuild
             /\ submissions_by_day' = d
             /\ disk' = s.file
             /\ faults' = faults + Failed(io)
             /\ sends' = <<ConfirmText>>
             /\ console' = <<IF m \in AttachmentMessages THEN LogAttachment ELSE LogLink>>
                            \o s.log \o <<LogConfirming>>
             /\ handler' = HandlerAt("confirm", m, {}, NoSets)
    ELSE ProcessCommands(m, io, guild, <<LogNoSpreadsheet>>)

\* a message arrives: on_message up to its first suspension
OnMessage(m, io, guild) ==
    /\ handler.pc \in {"idle", "done", "raised"}
    /\ IF m.author = BotUserId
       THEN /\ io = "ok"
            /\ guild = NoGuild
            /\ handler' = HandlerAt("done", m, {}, NoSets)
            /\ sends' = << >>
            /\ console' = << >>
            /\ UNCHANGED <<submissions_by_day, disk, faults>>
       ELSE IF m \in TestMessages
       THEN /\ io = "ok"
            /\ guild = NoGuild
            /\ handler' = HandlerAt("test_reply", m, {}, NoSets)
            /\ sends' = <<TestText>>
            /\ console' = <<LogEvent>>
            /\ UNCHANGED <<submissions_by_day, disk, faults>>
       ELSE Body(m, io, guild)
    /\ UNCHANGED <<today, health_started, heartbeats, ready>>

\* the send of line 161 returns or raises; nothing catches what it raises
AfterTestReply(outcome, io, guild) ==
    /\ handler.pc = "test_reply"
    /\ IF outcome = "ok"
       THEN Body(handler.message, io, guild)
       ELSE /\ io = "ok"
            /\ guild = NoGuild
            /\ handler' = [handler EXCEPT !.pc = "raised"]
            /\ sends' = << >>
            /\ console' = <<LogUnhandledMessage>>
            /\ UNCHANGED <<submissions_by_day, disk, faults>>
    /\ UNCHANGED <<today, health_started, heartbeats, ready>>

\* a confirmation send whose discord.Forbidden is not caught either
AfterConfirmPropagating(outcome, io, guild) ==
    /\ handler.pc = "confirm"
    /\ IF outcome # "ok"
       THEN /\ io = "ok"
            /\ guild = NoGuild
            /\ handler' = [handler EXCEPT !.pc = "raised"]
            /\ sends' = << >>
            /\ console' = <<LogUnhandledMessage>>
            /\ UNCHANGED <<submissions_by_day, disk, faults>>
       ELSE ProcessCommands(handler.message, io, guild, << >>)
    /\ UNCHANGED <<today, health_started, heartbeats, ready>>

\* the confirmation send of lines 193-198 returns or raises: discord.Forbidden
\* is caught, any other exception leaves the handler
AfterConfirm(outcome, io, guild) ==
    /\ handler.pc = "confirm"
    /\ IF outcome = "error"
       THEN /\ io = "ok"
            /\ guild = NoGuild
            /\ handler' = [handler EXCEPT !.pc = "raised"]
            /\ sends' = << >>
            /\ console' = <<LogUnhandledMessage>>
            /\ UNCHANGED <<submissions_by_day, disk, faults>>
       ELSE ProcessCommands(handler.message, io, guild,
                IF outcome = "forbidden" THEN <<LogMissingPermission>> ELSE << >>)
    /\ UNCHANGED <<today, health_started, heartbeats, ready>>

\* ------------------------------------------------------------ specification
\* the outcomes of the file write the handling of m can reach: only a
\* submission and an admitted clear write the file
WritesOf(m, ios) ==
    IF m \in SubmissionMessages \cup ClearingMessages THEN ios ELSE {"ok"}
\* the guild snapshots the handling of m can read: only a report reads one
GuildsOf(m, guilds) ==
    IF m \in ReportMessages THEN guilds \ {NoGuild} ELSE {NoGuild}

\* the on_message handler's steps, for the given messages, guild snapshots
\* and outcomes of file writes
HandlerSteps(messages, guilds, ios) ==
    \/ \E m \in messages :
        \E io \in WritesOf(m, ios), guild \in GuildsOf(m, guilds) :
            OnMessage(m, io, guild)
    \/ \E outcome \in SendOutcomes :
        \E io \in WritesOf(handler.message, ios),
           guild \in GuildsOf(handler.message, guilds) :
            AfterTestReply(outcome, io, guild)
    \/ \E outcome \in SendOutcomes :
        \E io \in WritesOf(handler.message, ios),
           guild \in GuildsOf(handler.message, guilds) :
            AfterConfirm(outcome, io, guild)

\* the process starts with no file or with the file of an earlier run
Init == handler = IdleHandler /\ \E file \in {AbsentFile, FileOfSameDay} : Started(file)

\* the guild snapshot of the whole-system specification: every account
CoreGuilds == {Accounts}

Next ==
    \/ DayPasses
    \/ \E i \in 1..Len(heartbeats) : HeartbeatStart(i)
    \/ \E i \in 1..Len(heartbeats), io \in SaveOutcomes : HeartbeatTick(i, io)
    \/ \E health \in {"ok", "error"}, chan \in BOOLEAN : OnReady(health, chan)
    \/ OnReadyLoad
    \/ HandlerSteps(CoreMessages, CoreGuilds, SaveOutcomes)

\* the whole system: the gateway's events, the heartbeat, the clock and
\* file writes that may fail
Spec == Init /\ [][Next]_vars

\* the message handlers alone, from a fresh start with no file and with file
\* writes that succeed: every message and every guild snapshot of the model
InitMessages == handler = IdleHandler /\ Started(AbsentFile)

NextMessages == HandlerSteps(Messages, Rosters, {"ok"})

SpecMessages == InitMessages /\ [][NextMessages]_vars

\* the process is stopped and started again: module level runs anew (lines
\* 29 and 70), DATA_FILE is what the stopped process left
Restart ==
    /\ submissions_by_day' = << >>
    /\ health_started' = FALSE
    /\ heartbeats' = << >>
    /\ ready' = "idle"
    /\ handler' = IdleHandler
    /\ sends' = << >>
    /\ console' = << >>
    /\ UNCHANGED <<today, disk, faults>>

\* the messages of the load-and-save specification: a spreadsheet of each
\* user, and a !test message that is one too
FilesMessages ==
    {Msg(a, CHANNEL_ID, FALSE, <<"report.xlsx">>, "") : a \in Humans}
    \cup {Msg(1, CHANNEL_ID, FALSE, << >>, "!test drive.google.com/x")}

InitFiles == handler = IdleHandler /\ \E file \in Files : Started(file)

NextFiles ==
    \/ \E health \in {"ok", "error"}, chan \in BOOLEAN : OnReady(health, chan)
    \/ OnReadyLoad
    \/ HandlerSteps(FilesMessages, CoreGuilds, {"ok"})
    \/ Restart

\* loading and saving over every DATA_FILE of the model: the process starts
\* with any of the files, loads it, records submissions and saves, and is
\* restarted; file writes succeed
SpecFiles == InitFiles /\ [][NextFiles]_vars

\* the heartbeat with ticks in which a statement raises, the clock, on_ready
\* and the submissions of the users; file writes succeed
InitHeartbeat == handler = IdleHandler /\ Started(AbsentFile)

NextHeartbeat ==
    \/ DayPasses
    \/ \E i \in 1..Len(heartbeats) : HeartbeatStart(i)
    \/ \E i \in 1..Len(heartbeats) : HeartbeatTick(i, "ok")
    \/ \E i \in 1..Len(heartbeats), at \in RaisePoints : HeartbeatRaises(i, at)
    \/ \E health \in {"ok", "error"}, chan \in BOOLEAN : OnReady(health, chan)
    \/ OnReadyLoad
    \/ HandlerSteps(FilesMessages, CoreGuilds, {"ok"})

\* asyncio.sleep(30) returns and the event loop runs the task: a heartbeat
\* that exists starts, and a tick in which nothing raises comes again and
\* again
SpecHeartbeat ==
    /\ InitHeartbeat
    /\ [][NextHeartbeat]_vars
    /\ WF_vars(\E i \in 1..Len(heartbeats) : HeartbeatStart(i))
    /\ WF_vars(\E i \in 1..Len(heartbeats) : HeartbeatTick(i, "ok"))

\* ------------------------------------------------------------ observations
\* the (day, identity) pairs a file holds
FilePairs(file) ==
    IF file.kind # "json" THEN {}
    ELSE UNION {{<<file.object[i].k, id>> : id \in Range(file.object[i].v)} :
                    i \in 1..Len(file.object)}
\* the (day, identity) pairs the ledger holds
LedgerPairs(d) == UNION {{<<d[i].k, id>> : id \in d[i].v} : i \in 1..Len(d)}

\* the latest step was clear_submissions emptying today's set
ClearedNow == sends' = <<ClearedText>>
\* the latest step ran load_data on a file it could read to the end
LoadedNow == console' = <<LogLoaded>>
\* the latest step's file write did not fail
NoWriteFailed == faults' = faults

\* ------------------------------------------------------------------ C1
\* C1: what was recorded and saved survives a restart. In every step whose
\* file write does not fail, each (day, identity) pair in the file stays in
\* the file unless clear_submissions empties that day in this step, and
\* once load_data has run every pair of the file is in the ledger.
C1_PersistsAcrossRestart ==
    [][NoWriteFailed =>
        \A p \in FilePairs(disk) :
            /\ p \in FilePairs(disk') \/ (ClearedNow /\ p[1] = today_key)
            /\ LoadedNow => p \in LedgerPairs(submissions_by_day')]_vars

\* ------------------------------------------------------------------ C2
\* C2: the ledger never implicitly removes past days. In every step a day
\* key of the ledger stays a key, the set of a day that is not the current
\* day is unchanged, and a set loses an identity only when the step is
\* clear_submissions and the set is the current day's.
C2_NoImplicitRemoval ==
    [][\A k \in Keys(submissions_by_day) :
        /\ Has(submissions_by_day', k)
        /\ k # today_key =>
                Get(submissions_by_day', k, {}) = Get(submissions_by_day, k, {})
        /\ Get(submissions_by_day, k, {}) \subseteq Get(submissions_by_day', k, {})
           \/ (ClearedNow /\ k = today_key)]_vars

\* ------------------------------------------------------------ steps
\* the step recorded a submission of handler'.message (lines 189-192)
RecordedNow ==
    \E io \in SaveOutcomes :
        \/ OnMessage(handler'.message, io, NoGuild) /\ handler'.pc = "confirm"
        \/ AfterTestReply("ok", io, NoGuild) /\ handler'.pc = "confirm"

\* the step ran process_commands for handler'.message (line 203)
CommandsRanNow ==
    /\ handler'.pc = "done"
    /\ handler'.message.author # BotUserId
    /\ \E io \in SaveOutcomes :
        \/ OnMessage(handler'.message, io, handler'.guild)
        \/ AfterTestReply("ok", io, handler'.guild)
        \/ \E outcome \in {"ok", "forbidden"} : AfterConfirm(outcome, io, handler'.guild)

\* the step was a heartbeat tick that saw the day change (lines 101-105)
RolledOverNow ==
    \E i \in 1..Len(heartbeats), io \in SaveOutcomes :
        HeartbeatTick(i, io) /\ heartbeats[i].last_day # today_key

\* the step ran on_ready's lines 141-144
LoadedAndEnsuredNow ==
    \/ OnReadyLoad
    \/ \E chan \in BOOLEAN : OnReady("ok", chan) /\ ready' = "idle" /\ health_started

\* the file write of the step happened as save_data does it: the file is the
\* serialised ledger, or the write failed and is logged
SavedNow ==
    \/ disk' = JsonFile(Serializable(submissions_by_day'))
            /\ faults' = faults /\ LogSaveFailed \notin Range(console')
    \/ disk' \in {disk, GarbageFile}
            /\ faults' = faults + 1 /\ LogSaveFailed \in Range(console')

\* every entry but k's is as it was
OthersUnchanged(k) ==
    /\ Keys(submissions_by_day') \ {k} = Keys(submissions_by_day) \ {k}
    /\ \A j \in Keys(submissions_by_day) \ {k} :
            Get(submissions_by_day', j, {}) = Get(submissions_by_day, j, {})

\* no list of the file holds an identity twice
NoDuplicates(file) ==
    \A i \in 1..Len(file.object) :
        Cardinality(Range(file.object[i].v)) = Len(file.object[i].v)

\* ------------------------------------------------------------------ C3
\* C3: recording is idempotent. A step that records a submission whose
\* (day, identity) pair the ledger already holds leaves the ledger as it
\* was; after any recording the ledger has one entry per day key, the
\* author is in today's set, and no list of the file has a duplicate.
C3_RecordIdempotent ==
    [][RecordedNow =>
        /\ handler'.message.author \in Get(submissions_by_day, today_key, {})
                => submissions_by_day' = submissions_by_day
        /\ handler'.message.author \in Get(submissions_by_day', today_key, {})
        /\ Cardinality(Keys(submissions_by_day')) = Len(submissions_by_day')
        /\ NoDuplicates(disk')]_vars

\* the recording step's write failed and left the file as it was, no write
\* failed before, and the file is one this process wrote with the author
\* already in today's list: the pair was in the ledger before this step
C3_Witness ==
    /\ handler.pc = "confirm"
    /\ console = <<LogAttachment, LogSaveFailed, LogConfirming>>
    /\ faults = 1
    /\ disk = JsonFile(<<JsonList(today_key, <<handler.message.author>>)>>)
    /\ submissions_by_day = <<[k |-> today_key, v |-> {handler.message.author}]>>

\* ------------------------------------------------------------------ C4
\* C4: day rollover. A heartbeat tick whose current day key differs from the
\* key it remembered leaves the ledger with an entry for the new key, has
\* performed a save, remembers the new key, and leaves the entry of every
\* other day key exactly as it was.
C4_DayRollover ==
    [][\A i \in 1..Len(heartbeats), io \in SaveOutcomes :
        (HeartbeatTick(i, io) /\ heartbeats[i].last_day # today_key) =>
            /\ Has(submissions_by_day', today_key)
            /\ SavedNow
            /\ heartbeats'[i].last_day = today_key
            /\ OthersUnchanged(today_key)]_vars

\* the tick after midnight turned {2024-01-01: {1,2}} into
\* {2024-01-01: {1,2}, 2024-01-02: {}} and wrote it
C4_Witness ==
    /\ console = <<LogDateChanged, LogHeartbeat>>
    /\ heartbeats[1].last_day = IsoFormat(2)
    /\ submissions_by_day = <<[k |-> IsoFormat(1), v |-> {1, 2}],
                              [k |-> IsoFormat(2), v |-> {}]>>
    /\ disk = JsonFile(<<JsonList(IsoFormat(1), <<1, 2>>),
                         JsonList(IsoFormat(2), << >>)>>)

\* ------------------------------------------------------------------ C5
\* C5: today's entry is present once the current day was observed. A step
\* that runs on_ready's load/ensure, or a heartbeat tick that sees the day
\* change, leaves the ledger with an entry for the current day key; and no
\* step during which that key stays the current day removes the entry,
\* clear_submissions and a repeated on_ready included.
C5_TodayPresent ==
    [][/\ (LoadedAndEnsuredNow \/ RolledOverNow) =>
                Has(submissions_by_day', today_key)
       /\ (Has(submissions_by_day, today_key) /\ today' = today) =>
                Has(submissions_by_day', today_key)]_vars

\* a repeated on_ready has just loaded the file, after the heartbeat saw the
\* second day begin and clear_submissions emptied that day: the file has no
\* entry for the day, the ledger has
C5_Witness ==
    /\ today = 2
    /\ console = <<LogLoaded>>
    /\ Len(heartbeats) = 1
    /\ heartbeats[1].last_day = today_key
    /\ handler.pc = "done"
    /\ handler.message \in ClearingMessages
    /\ \A i \in 1..Len(disk.object) : disk.object[i].k # today_key
    /\ Get(submissions_by_day, today_key, {1}) = {}

\* ------------------------------------------------------------------ C6
\* the step ran clear_submissions for an administrator in the target channel
AdminClearedNow == CommandsRanNow /\ handler'.message \in ClearingMessages

\* C6, as claimed: clear_submissions invoked in the target channel by an
\* administrator empties the current day's set, leaves every other day's
\* entry unchanged, and after it the file reflects the cleared ledger.
C6_ClearReflectedInFile ==
    [][AdminClearedNow =>
        /\ Has(submissions_by_day', today_key)
        /\ Get(submissions_by_day', today_key, {1}) = {}
        /\ OthersUnchanged(today_key)
        /\ disk' = JsonFile(Serializable(submissions_by_day'))]_vars

\* C6, amended: clear_submissions invoked in the target channel by an
\* administrator empties the current day's set, leaves every other day's
\* entry unchanged, and calls save_data: the file reflects the cleared
\* ledger when the write succeeds, and a write that fails is logged and
\* leaves the file as it was or unreadable.
C6_ClearSaves ==
    [][AdminClearedNow =>
        /\ Has(submissions_by_day', today_key)
        /\ Get(submissions_by_day', today_key, {1}) = {}
        /\ OthersUnchanged(today_key)
        /\ SavedNow]_vars

\* an administrator's message was recorded as a submission and then cleared
\* today's set; the earlier day's set is as the file had it, and the file
\* holds the cleared ledger
C6_Witness ==
    /\ handler.pc = "done"
    /\ handler.message \in ClearingMessages \cap SubmissionMessages
    /\ sends = <<ClearedText>>
    /\ LogSaveFailed \notin Range(console)
    /\ Get(submissions_by_day, today_key, {1}) = {}
    /\ Get(submissions_by_day, PastKey, {}) = {1, 2}
    /\ disk = JsonFile(Serializable(submissions_by_day))

\* ------------------------------------------------------------------ C7
\* the step ran clear_submissions in the target channel for a caller without
\* the administrator permission
DeniedNow ==
    /\ CommandsRanNow
    /\ handler'.message \in InvokingClear
    /\ InTargetChannel(handler'.message)
    /\ ~handler'.message.admin

\* C7: clear_submissions invoked in the target channel by a caller without
\* the administrator permission sends the denial message and leaves the
\* ledger and the file unchanged.
C7_ClearDenied ==
    [][DeniedNow =>
        /\ sends' = <<DeniedText>>
        /\ submissions_by_day' = submissions_by_day
        /\ disk' = disk]_vars

\* the denial was sent while today's set and the file hold a submission
C7_Witness ==
    /\ handler.pc = "done"
    /\ handler.message \in InvokingClear
    /\ InTargetChannel(handler.message)
    /\ ~handler.message.admin
    /\ sends = <<DeniedText>>
    /\ Get(submissions_by_day, today_key, {}) # {}
    /\ <<today_key, 1>> \in FilePairs(disk)

\* ------------------------------------------------------------------ C8
\* the step ran one of the three report commands in the target channel, with
\* the guild snapshot handler'.guild
ReportedNow == CommandsRanNow /\ handler'.message \in ReportMessages

\* C8: the partition for today. Whenever a report command computes its sets
\* from the ledger and the roster, submitted and not_submitted are disjoint,
\* their union is the set of non-bot roster identities, submitted is today's
\* ledger set intersected with them, and an identity of the ledger that is a
\* bot or is not in the roster is in neither set.
C8_Partition ==
    [][ReportedNow =>
        LET roster == handler'.guild
            non_bots == {id \in roster : ~IsBotAccount(id)}
            ledger == Get(submissions_by_day, today_key, {})
            submitted == handler'.submitted
            not_submitted == handler'.not_submitted
        IN  /\ submitted \cap not_submitted = {}
            /\ submitted \cup not_submitted = non_bots
            /\ submitted = ledger \cap non_bots
            /\ \A id \in ledger :
                    (IsBotAccount(id) \/ id \notin roster) =>
                        id \notin submitted \cup not_submitted]_vars

\* a report ran with another bot both in today's set and in the roster, a
\* human of today's set gone from the roster, and a roster member who has
\* not submitted
C8_Witness ==
    /\ handler.pc = "done"
    /\ handler.message \in ReportMessages
    /\ handler.today_ids = Get(submissions_by_day, today_key, {})
    /\ \E bot \in OtherBots : bot \in handler.today_ids \cap handler.guild
    /\ \E id \in Humans : id \in handler.today_ids \ handler.guild
    /\ handler.not_submitted # {}

\* ------------------------------------------------------------------ C9
\* the messages the claim calls submissions: an attachment's filename ends
\* with one of the four extensions as written, or the lower-cased text
\* contains one of the three link substrings
C9_Matching ==
    {m \in Messages :
        \/ \E i \in 1..Len(m.attachments) :
            \E ext \in {".xlsx", ".xls", ".csv", ".ods"} :
                EndsWith(m.attachments[i], ext)
        \/ \E link \in {"docs.google.com/spreadsheets", "sheets.google.com",
                        "drive.google.com"} :
                Contains(Lower(m.content), link)}

\* the step took the handler of handler'.message past the classification of
\* lines 163-201, or out of the handler before it
ClassifiedNow ==
    \E io \in SaveOutcomes :
        \/ OnMessage(handler'.message, io, handler'.guild)
                /\ handler'.pc # "test_reply"
        \/ \E outcome \in SendOutcomes :
                AfterTestReply(outcome, io, handler'.guild)

\* C9: classification. A message some user sends is recorded as a
\* submission, its author in today's set, if and only if an attachment's
\* filename ends with .xlsx, .xls, .csv or .ods or its lower-cased text
\* contains one of the three link substrings, whoever sent it and whatever
\* the ledger held; handling a message that is not a submission adds no
\* identity to the ledger.
C9_Classification ==
    [][(ClassifiedNow /\ handler'.message.author # BotUserId) =>
        LET m == handler'.message
            recorded == /\ handler'.pc = "confirm"
                        /\ m.author \in Get(submissions_by_day', today_key, {})
        IN  /\ recorded <=> m \in C9_Matching
            /\ m \notin C9_Matching =>
                    LedgerPairs(submissions_by_day') \subseteq
                        LedgerPairs(submissions_by_day)]_vars

\* ------------------------------------------------------------------ C10
\* the step ran one of the four commands in a channel that is not the target
IgnoredNow ==
    /\ CommandsRanNow
    /\ handler'.message \in InvokingSubmissions \cup InvokingNotSubmitted
                                \cup InvokingDailyReport \cup InvokingClear
    /\ ~InTargetChannel(handler'.message)

\* C10: submissions, notsubmitted, dailyreport and clear_submissions invoked
\* from a channel other than the target channel send nothing and leave the
\* ledger and the file unchanged, whatever the caller's permissions.
C10_IgnoredElsewhere ==
    [][IgnoredNow =>
        /\ sends' = << >>
        /\ submissions_by_day' = submissions_by_day
        /\ disk' = disk]_vars

\* an administrator's clear_submissions from another channel was ignored
\* while today's set and the file hold submissions
C10_Witness ==
    /\ handler.pc = "done"
    /\ handler.message \in InvokingClear
    /\ handler.message.admin
    /\ ~InTargetChannel(handler.message)
    /\ sends = << >>
    /\ Get(submissions_by_day, today_key, {}) = Humans
    /\ FilePairs(disk) = LedgerPairs(submissions_by_day)

\* ------------------------------------------------------------------ C11
\* the step ran on_ready's load/ensure in a process whose ledger was still
\* empty: the load at startup
StartupLoadNow == LoadedAndEnsuredNow /\ submissions_by_day = << >>

\* json.load rejects the file, or a value of it cannot be made a set
Malformed(file) ==
    \/ file.kind = "garbage"
    \/ file.kind = "json" /\ \E i \in 1..Len(file.object) : ~file.object[i].iterable

\* C11: load degrades to an empty ledger. The load at startup of an absent
\* file leaves the ledger empty but for today's empty entry and logs no
\* failure; the load of a malformed file logs the failure, on_ready goes on,
\* and the ledger is empty but for today's empty entry: nothing of the
\* malformed file is in it.
C11_LoadDegradesToEmpty ==
    [][StartupLoadNow =>
        /\ disk.kind = "absent" =>
            /\ console' = << >>
            /\ submissions_by_day' = <<[k |-> today_key, v |-> {}]>>
        /\ Malformed(disk) =>
            /\ console' = <<LogLoadFailed>>
            /\ ready' = "idle"
            /\ submissions_by_day' = <<[k |-> today_key, v |-> {}]>>]_vars

\* ------------------------------------------------------------------ C12
\* the step called save_data and the write failed
SaveFailedNow == faults' = faults + 1

\* the step mutated the ledger by a record, a clear or a rollover
MutatedNow == RecordedNow \/ AdminClearedNow \/ RolledOverNow

\* the mutation of the step is in the ledger and its caller went on: the
\* confirmation is being sent, the clear is answered, the tick logs its
\* heartbeat line
MutationKept ==
    /\ RecordedNow =>
        /\ handler'.message.author \in Get(submissions_by_day', today_key, {})
        /\ sends' = <<ConfirmText>>
    /\ AdminClearedNow =>
        /\ Get(submissions_by_day', today_key, {1}) = {}
        /\ sends' = <<ClearedText>>
    /\ RolledOverNow =>
        /\ Has(submissions_by_day', today_key)
        /\ console'[Len(console')] = LogHeartbeat

\* C12: a failed save is a no-op that the next mutation recovers. When the
\* write of save_data fails the file keeps its previous content, the ledger
\* keeps the mutation and the caller goes on; and every mutation whose save
\* succeeds leaves the file equal to the whole ledger, with whatever an
\* earlier failed save had not written.
C12_FailedSaveRecovered ==
    [][MutatedNow =>
        /\ MutationKept
        /\ SaveFailedNow => disk' = disk
        /\ ~SaveFailedNow => disk' = JsonFile(Serializable(submissions_by_day'))]_vars

\* ------------------------------------------------------------------ C13
\* C13: the heartbeat survives its errors and still rolls over. A heartbeat
\* that sleeps stays a sleeping heartbeat in every step, whatever raises in
\* a tick; and whenever a sleeping heartbeat remembers a day that is not the
\* current day, the ledger eventually has the current day's entry.
C13_HeartbeatSurvives ==
    /\ [][\A i \in 1..Len(heartbeats) :
            heartbeats[i].pc = "sleeping" =>
                Len(heartbeats') >= i /\ heartbeats'[i].pc = "sleeping"]_vars
    /\ (\E i \in 1..Len(heartbeats) :
            heartbeats[i].pc = "sleeping" /\ heartbeats[i].last_day # today_key)
        ~> Has(submissions_by_day, today_key)

\* ------------------------------------------------------------------ C14
\* the step resumed on_message after its confirmation send raised
\* discord.Forbidden
ForbiddenNow ==
    \E io \in SaveOutcomes : AfterConfirm("forbidden", io, handler'.guild)

\* C14: a permission-denied confirmation send does not undo the recording.
\* The step that handles it logs the missing permission, raises nothing and
\* runs the message's command; unless that command is an administrator's
\* clear, the ledger and the file are as the recording left them, and in
\* any case no pair leaves the ledger but today's by that clear.
C14_ForbiddenKeepsRecord ==
    [][ForbiddenNow =>
        /\ console'[1] = LogMissingPermission
        /\ handler'.pc = "done"
        /\ handler'.message = handler.message
        /\ handler.message \notin ClearingMessages =>
                submissions_by_day' = submissions_by_day /\ disk' = disk
        /\ \A p \in LedgerPairs(submissions_by_day) :
                p \in LedgerPairs(submissions_by_day') \/ (ClearedNow /\ p[1] = today_key)]_vars

\* the confirmation of a recorded "!test" message with a link was refused:
\* the author is in today's set and in the file, and the test command ran
C14_Witness ==
    /\ handler.pc = "done"
    /\ handler.message \in SubmissionMessages \cap InvokingTest
    /\ console = <<LogMissingPermission>>
    /\ sends = <<TestText>>
    /\ handler.message.author \in Get(submissions_by_day, today_key, {})
    /\ <<today_key, handler.message.author>> \in FilePairs(disk)

\* ------------------------------------------------------------------ C15
\* the list is in ascending order with no identity twice
Ascending(list) == \A i \in 1..(Len(list) - 1) : list[i] < list[i + 1]

\* C15: round trip. For the ledger the process holds, whatever it is, the
\* file save_data writes lists each day's identities in ascending order with
\* no duplicate, load_data of that file into an empty ledger gives the same
\* ledger, and saving the loaded ledger writes the same file again.
C15_RoundTrip ==
    LET saved == save_data(submissions_by_day, disk, "ok").file
        loaded == load_data(<< >>, saved)
    IN  /\ saved.kind = "json"
        /\ \A i \in 1..Len(saved.object) :
                saved.object[i].iterable /\ Ascending(saved.object[i].v)
        /\ loaded.log = <<LogLoaded>>
        /\ loaded.dict = submissions_by_day
        /\ save_data(loaded.dict, saved, "ok").file = saved

\* a restarted process has loaded the file its predecessor saved: two days,
\* one of them with both users, the lists ascending
C15_Witness ==
    /\ console = <<LogLoaded>>
    /\ handler = IdleHandler
    /\ Get(submissions_by_day, PastKey, {}) # {}
    /\ Get(submissions_by_day, IsoFormat(1), {}) = {1, 2}
    /\ disk = JsonFile(Serializable(submissions_by_day))

\* ------------------------------------------------------------------ C16
\* the step was a heartbeat tick that saw no day change: of the ledger it
\* only reads today's set for its status line (lines 106-108)
StatusLoggedNow ==
    \E i \in 1..Len(heartbeats) :
        HeartbeatTick(i, "ok") /\ heartbeats[i].last_day = today_key

C17_FlushedAfterMutation ==
    [][((MutatedNow \/ LoadedAndEnsuredNow) /\ faults' = 0) =>
            disk' = JsonFile(Serializable(submissions_by_day'))]_vars

\* ------------------------------------------------------------------ C18
\* C18: a mutation and its save are one step. Every step that changes the
\* ledger, other than on_ready's load, is a record, a clear or a rollover
\* that has run save_data on the changed ledger before the step ends: at no
\* suspension point does another task find a ledger mutated and not saved,
\* and every file written is the whole ledger of that moment.
C18_MutationAndSaveAtomic ==
    [][/\ (submissions_by_day' # submissions_by_day /\ ~LoadedAndEnsuredNow) =>
                MutatedNow
       /\ MutatedNow => SavedNow]_vars

\* the heartbeat rolled the day over while a message handler was suspended
\* in its confirmation send: the file holds the handler's recording and the
\* rollover's entry, both whole
C18_Witness ==
    /\ handler.pc = "confirm"
    /\ console = <<LogDateChanged, LogHeartbeat>>
    /\ handler.message.author \in Get(submissions_by_day, IsoFormat(1), {})
    /\ Has(submissions_by_day, IsoFormat(2))
    /\ disk = JsonFile(Serializable(submissions_by_day))

\* ------------------------------------------------------------------ C19
\* C19: a submission between midnight and the tick that detects it. Every
\* recording puts the author in the set of the day current at that moment,
\* creating the entry if needed, and changes no other day's entry; the
\* rollover tick leaves the new day's set as it found it, and the other
\* days' entries too.
C19_EarlySubmissionKept ==
    [][/\ RecordedNow =>
            /\ handler'.message.author \in Get(submissions_by_day', today_key, {})
            /\ OthersUnchanged(today_key)
       /\ RolledOverNow =>
            /\ Get(submissions_by_day', today_key, {}) =
                    Get(submissions_by_day, today_key, {})
            /\ OthersUnchanged(today_key)]_vars

\* the tick has just detected the second day, and that day's set holds the
\* user who submitted before the tick; the first day's set does not
C19_Witness ==
    /\ today = 2
    /\ console = <<LogDateChanged, LogHeartbeat>>
    /\ Get(submissions_by_day, IsoFormat(2), {}) = {1}
    /\ Has(submissions_by_day, IsoFormat(1))
    /\ 1 \notin Get(submissions_by_day, IsoFormat(1), {})

\* ------------------------------------------------------------------ C20
\* C20: at most one heartbeat task exists, and exactly one once on_ready has
\* fired, however many times it fires.
C20_OneHeartbeat ==
    /\ Len(heartbeats) <= 1
    /\ health_started => Len(heartbeats) = 1

\* on_ready has run its load/ensure on the first day and again on the
\* second: nothing was ever written, so both empty entries are its own, and
\* the one heartbeat has not seen the second day
C20_Witness ==
    /\ today = 2
    /\ disk = AbsentFile
    /\ faults = 0
    /\ submissions_by_day = <<[k |-> IsoFormat(1), v |-> {}],
                              [k |-> IsoFormat(2), v |-> {}]>>
    /\ Len(heartbeats) = 1
    /\ heartbeats[1].last_day # IsoFormat(2)

====
